---- MODULE Spec2Model ----
(***************************************************************************)
(* Model of compute_aesthetic_charge (src/aesthetic_charge.py).            *)
(*                                                                         *)
(* Numbers.  The code works on float64 arrays (float32 for the histogram). *)
(* The model uses fixed point: Lab values, local means, Laplacian and      *)
(* entropy are integers in units of 1/1000; weights are integers in units  *)
(* of 1/10; the field q is therefore in units of 1/10000.  A division      *)
(* rounds to nearest.  Sums and products are exact: the rounding error of  *)
(* a float64 sum (about 1e-14 on Lab values) is below the unit of the      *)
(* model and is not represented.                                           *)
(*                                                                         *)
(* Images.  A file is a record [kind, h, w, px]; for an image file px maps *)
(* (row, column) to a BGR triple of 8-bit values, the layout cv2.imread    *)
(* decodes to.  A file that cannot be decoded (missing, corrupt, without   *)
(* pixels) is the value Undecodable, for which cv2.imread returns None.    *)
(***************************************************************************)
EXTENDS Integers, Sequences, FiniteSets

VARIABLES
  file,         \* what the file at image_path holds
  kernel_size,  \* argument of the current call
  weights,      \* argument of the current call, a tuple
  pc,           \* "ready": the call is about to run; "done": it has returned or raised
  ret,          \* outcome of the current call
  log           \* the calls made so far, oldest first

vars == <<file, kernel_size, weights, pc, ret, log>>

-----------------------------------------------------------------------------
(* Bounds of the input space.                                              *)

MaxH == 2
MaxW == 2
MaxColours == 2      \* distinct colours in one image
MaxKernel == 4
MaxWeight == 10

-----------------------------------------------------------------------------
(* Input values.                                                           *)

Black  == <<0, 0, 0>>
White  == <<255, 255, 255>>
Red    == <<0, 0, 255>>          \* BGR order
Gray76 == <<76, 76, 76>>

Palette == {Black, White, Red, Gray76}

NoGrid == [p \in {} |-> 0]

Undecodable == [kind |-> "garbage", h |-> 0, w |-> 0, px |-> NoGrid]

\* Python's None, in the shape of an array so that it can stand where one is
\* expected
None == [h |-> 0, w |-> 0, px |-> NoGrid]
IsNone(x) == x.h = 0

Pix(h, w) == (0 .. h - 1) \X (0 .. w - 1)

Images ==
  UNION { { [kind |-> "image", h |-> h, w |-> w, px |-> f] :
              f \in { g \in [Pix(h, w) -> Palette] :
                        Cardinality({ g[p] : p \in Pix(h, w) }) <= MaxColours } }
          : <<h, w>> \in (1 .. MaxH) \X (1 .. MaxW) }

Files == Images \cup {Undecodable}

KernelSizes == {-1, 0, 1, 3, MaxKernel}

DefaultWeights == <<10, 10, 10, 5, 3>>

WeightTuples ==
  { [i \in 1 .. 5 |-> IF i = k THEN MaxWeight ELSE 0] : k \in 0 .. 5 }
    \cup {DefaultWeights, [i \in 1 .. 5 |-> MaxWeight]}
    \cup { [i \in 1 .. 5 |-> IF i = k THEN -MaxWeight ELSE MaxWeight] : k \in 1 .. 5 }
    \cup { <<>>, <<MaxWeight, MaxWeight, MaxWeight, MaxWeight>>,
           <<MaxWeight, MaxWeight, MaxWeight, MaxWeight, MaxWeight, MaxWeight>> }

-----------------------------------------------------------------------------
(* Arithmetic helpers.                                                     *)

RoundDiv(n, d) == (2 * n + d) \div (2 * d)

RECURSIVE SumOver(_, _)
SumOver(S, f) ==
  IF S = {} THEN 0
  ELSE LET x == CHOOSE y \in S : TRUE
       IN  f[x] + SumOver(S \ {x}, f)

\* f[0] + ... + f[n - 1]
RECURSIVE SumTo(_, _)
SumTo(n, f) == IF n <= 0 THEN 0 ELSE f[n - 1] + SumTo(n - 1, f)

\* variant: the absolute value left out
Abs_signed(x) == x

\* np.abs
Abs(x) == IF x < 0 THEN -x ELSE x

\* round(1000 * log2(n)) for the pixel counts the bounds allow
Log2Milli ==
  <<0, 1000, 1585, 2000, 2322, 2585, 2807, 3000, 3170, 3322, 3459, 3585,
    3700, 3807, 3907, 4000>>

-----------------------------------------------------------------------------
(* Library steps of the pipeline, in the order the code calls them.        *)

\* variant: a loader that hands out a blank 1x1 image for a file it cannot
\* decode
imread_blank(f) ==
  IF f.kind = "image" THEN [h |-> f.h, w |-> f.w, px |-> f.px]
  ELSE [h |-> 1, w |-> 1, px |-> [p \in Pix(1, 1) |-> Black]]

\* variant: a loader that hands out the image of the call before
imread_stale(f) ==
  LET g == IF log = <<>> THEN f ELSE log[Len(log)].file
  IN  IF g.kind = "image" THEN [h |-> g.h, w |-> g.w, px |-> g.px] ELSE None

\* line 19: cv2.imread returns None for a file it cannot decode, and a
\* 3-channel BGR array otherwise
imread(f) ==
  IF f.kind = "image" THEN [h |-> f.h, w |-> f.w, px |-> f.px] ELSE None

\* line 20: cv2.cvtColor(bgr, COLOR_BGR2RGB) on an array
BGR2RGB(bgr) ==
  [h |-> bgr.h, w |-> bgr.w,
   px |-> [p \in Pix(bgr.h, bgr.w) |-> <<bgr.px[p][3], bgr.px[p][2], bgr.px[p][1]>>]]

\* line 21: skimage.color.rgb2lab of one RGB pixel (sRGB, D65, 2 degree
\* observer), in units of 1/1000, for the colours of the palette
LabOf(c) ==
  CASE c = <<0, 0, 0>>       -> <<0, 0, 0>>
    [] c = <<255, 255, 255>> -> <<100000, -2, 5>>
    [] c = <<255, 0, 0>>     -> <<53241, 80092, 67203>>
    [] c = <<76, 76, 76>>    -> <<32319, -1, 2>>

rgb2lab(rgb) == [p \in Pix(rgb.h, rgb.w) |-> LabOf(rgb.px[p])]

\* line 23: lab[:, :, i]
Channel(lab, i) == [p \in DOMAIN lab |-> lab[p][i]]

\* cv2.borderInterpolate with BORDER_REFLECT_101 (BORDER_DEFAULT), the
\* border mode of filter2D and Laplacian when none is passed
RECURSIVE Reflect101(_, _)
Reflect101(p, len) ==
  IF p >= 0 /\ p < len THEN p
  ELSE IF p < 0 THEN Reflect101(-p, len)
  ELSE Reflect101(2 * len - 2 - p, len)

borderInterpolate(p, len) ==
  IF p >= 0 /\ p < len THEN p
  ELSE IF len = 1 THEN 0
  ELSE Reflect101(p, len)

\* variant: the kernel divided by ks instead of ks ** 2
filter2D_unnormalised(src, h, w, ks) ==
  LET anchor == ks \div 2
  IN  [p \in Pix(h, w) |->
         RoundDiv(
           SumTo(ks, [i \in 0 .. ks - 1 |->
             SumTo(ks, [j \in 0 .. ks - 1 |->
               src[<<borderInterpolate(p[1] + i - anchor, h),
                     borderInterpolate(p[2] + j - anchor, w)>>]])]),
           ks)]

\* variant: kernel_size taken as the radius of the window
filter2D_radius(src, h, w, ks) ==
  LET n == 2 * ks + 1
  IN  [p \in Pix(h, w) |->
         RoundDiv(
           SumTo(n, [i \in 0 .. n - 1 |->
             SumTo(n, [j \in 0 .. n - 1 |->
               src[<<borderInterpolate(p[1] + i - ks, h),
                     borderInterpolate(p[2] + j - ks, w)>>]])]),
           n * n)]

\* lines 26, 29-31: cv2.filter2D(src, -1, np.ones((ks, ks)) / ks**2):
\* correlation with the box kernel, anchor at the kernel centre (ks // 2)
filter2D(src, h, w, ks) ==
  LET anchor == ks \div 2
  IN  [p \in Pix(h, w) |->
         RoundDiv(
           SumTo(ks, [i \in 0 .. ks - 1 |->
             SumTo(ks, [j \in 0 .. ks - 1 |->
               src[<<borderInterpolate(p[1] + i - anchor, h),
                     borderInterpolate(p[2] + j - anchor, w)>>]])]),
           ks * ks)]

\* variant: the difference without np.abs
AbsDiff_signed(x, y) == [p \in DOMAIN x |-> x[p] - y[p]]

\* lines 34-36: np.abs(x - y) pointwise
AbsDiff(x, y) == [p \in DOMAIN x |-> Abs(x[p] - y[p])]

\* line 39: cv2.Laplacian(L, CV_64F): ksize = 1 is the 4-neighbour stencil
\* [0 1 0; 1 -4 1; 0 1 0]
Laplacian(src, h, w) ==
  [p \in Pix(h, w) |->
     src[<<borderInterpolate(p[1] - 1, h), p[2]>>]
     + src[<<borderInterpolate(p[1] + 1, h), p[2]>>]
     + src[<<p[1], borderInterpolate(p[2] - 1, w)>>]
     + src[<<p[1], borderInterpolate(p[2] + 1, w)>>]
     - 4 * src[p]]

\* line 43: cv2.cvtColor(bgr, COLOR_BGR2GRAY) in OpenCV's 14-bit fixed point
B2Y == 1868
G2Y == 9617
R2Y == 4899

GrayOf(c) == (c[1] * B2Y + c[2] * G2Y + c[3] * R2Y + 8192) \div 16384

BGR2GRAY(bgr) == [p \in Pix(bgr.h, bgr.w) |-> GrayOf(bgr.px[p])]

\* line 44: cv2.calcHist([gray], [0], None, [256], [0, 256])
HistSize == 256

calcHist(gray) ==
  [v \in 0 .. HistSize - 1 |-> Cardinality({p \in DOMAIN gray : gray[p] = v})]

\* lines 45-46: hist / hist.sum(), then -sum(hist * log2(hist + 1e-9)).
\* An empty bin contributes 0 * log2(1e-9) = 0.  For an occupied bin the
\* float32 sum p + 1e-9 is p (1e-9 is below half an ulp of p for every p
\* the bounds allow), so its term is p * log2(p) with p = c / n:
\*   -sum(p * log2 p) = sum(c * (log2 n - log2 c)) / n.
\* variant: the histogram not normalised (line 45 left out)
NegLog2P_raw(c, n) == 0 - Log2Milli[c]

NegLog2P(c, n) == Log2Milli[n] - Log2Milli[c]

entropy_val(hist, gray) ==
  LET occupied == {gray[p] : p \in DOMAIN gray}
      n == SumOver(occupied, [v \in occupied |-> hist[v]])
  IN  RoundDiv(SumOver(occupied,
                       [v \in occupied |-> hist[v] * NegLog2P(hist[v], n)]), n)

\* line 47: np.full_like(L, entropy_val)
full_like(L, v) == [p \in DOMAIN L |-> v]

\* variant: the curvature and entropy weights swapped
WeightedSum_swapped(w, m1, m2, m3, m4, m5) ==
  [p \in DOMAIN m1 |->
     w[1] * m1[p] + w[2] * m2[p] + w[3] * m3[p] + w[5] * m4[p] + w[4] * m5[p]]

\* lines 50-57: the weighted sum, pointwise
WeightedSum(w, m1, m2, m3, m4, m5) ==
  [p \in DOMAIN m1 |->
     w[1] * m1[p] + w[2] * m2[p] + w[3] * m3[p] + w[4] * m4[p] + w[5] * m5[p]]

-----------------------------------------------------------------------------
(* The call.                                                               *)

\* the statements of the function body, in execution order
Steps ==
  <<"imread", "cvtColor", "rgb2lab", "kernel", "filter2D", "diff",
    "Laplacian", "entropy", "unpack", "sum">>

RECURSIVE IndexOf(_, _)
IndexOf(name, i) == IF Steps[i] = name THEN i ELSE IndexOf(name, i + 1)

\* an exception leaving the function at statement `at`: the statements
\* before it have run, nothing is returned
Raise(err, at) ==
  [status |-> "raised", error |-> err, failedAt |-> at,
   steps |-> SubSeq(Steps, 1, IndexOf(at, 1) - 1),
   q |-> NoGrid, rgb |-> None,
   L_diff |-> NoGrid, a_diff |-> NoGrid, b_diff |-> NoGrid,
   L_lap_abs |-> NoGrid, entropy |-> NoGrid]

\* lines 6-59
compute_aesthetic_charge(image_path, ks, w) ==
  LET bgr == imread(image_path)
      rgb == BGR2RGB(bgr)
      lab == rgb2lab(rgb)
      L == Channel(lab, 1)
      a == Channel(lab, 2)
      b == Channel(lab, 3)
      L_diff == AbsDiff(L, filter2D(L, bgr.h, bgr.w, ks))
      a_diff == AbsDiff(a, filter2D(a, bgr.h, bgr.w, ks))
      b_diff == AbsDiff(b, filter2D(b, bgr.h, bgr.w, ks))
      L_lap == Laplacian(L, bgr.h, bgr.w)
      L_lap_abs == [p \in DOMAIN L_lap |-> Abs(L_lap[p])]
      gray == BGR2GRAY(bgr)
      entropy == full_like(L, entropy_val(calcHist(gray), gray))
  IN  IF IsNone(bgr)
        THEN Raise("cv2.error", "cvtColor")     \* line 20: cvtColor(None)
      ELSE IF ks < 0
        THEN Raise("ValueError", "kernel")      \* line 26: np.ones, negative dimension
      ELSE IF ks = 0
        THEN Raise("cv2.error", "filter2D")     \* line 29: empty kernel
      ELSE IF Len(w) # 5
        THEN Raise("ValueError", "unpack")      \* line 50: tuple unpacking
      ELSE
        [status |-> "returned", error |-> "", failedAt |-> "",
         steps |-> Steps,
         q |-> WeightedSum(w, L_diff, a_diff, b_diff, L_lap_abs, entropy),
         rgb |-> rgb,
         L_diff |-> L_diff, a_diff |-> a_diff, b_diff |-> b_diff,
         L_lap_abs |-> L_lap_abs, entropy |-> entropy]

NoRet == [status |-> "none"]

-----------------------------------------------------------------------------
(* One call on arbitrary arguments.                                        *)

Init ==
  /\ file \in Files
  /\ kernel_size \in KernelSizes
  /\ weights \in WeightTuples
  /\ pc = "ready"
  /\ ret = NoRet
  /\ log = <<>>

\* the function never writes to image_path, nor to the array it decoded
AfterCall(f) == f

Call ==
  /\ pc = "ready"
  /\ ret' = compute_aesthetic_charge(file, kernel_size, weights)
  /\ file' = AfterCall(file)
  /\ log' = Append(log, [file |-> file, kernel_size |-> kernel_size,
                         weights |-> weights, ret |-> ret',
                         file_after |-> file'])
  /\ pc' = "done"
  /\ UNCHANGED <<kernel_size, weights>>

Next == Call

Spec == Init /\ [][Next]_vars

-----------------------------------------------------------------------------
(* A sequence of calls: the caller calls again, with the same or another   *)
(* file and the same or other parameters.                                  *)

MaxCalls == 3

BlackWhite ==
  [kind |-> "image", h |-> 1, w |-> 2,
   px |-> [p \in Pix(1, 2) |-> IF p[2] = 0 THEN Black ELSE White]]

RedGray ==
  [kind |-> "image", h |-> 1, w |-> 2,
   px |-> [p \in Pix(1, 2) |-> IF p[2] = 0 THEN Red ELSE Gray76]]

SeqFiles == {Undecodable, BlackWhite, RedGray}
SeqKernelSizes == {3, MaxKernel}
SeqWeights == {DefaultWeights, <<MaxWeight, MaxWeight, MaxWeight, MaxWeight>>}

InitCalls ==
  /\ file \in SeqFiles
  /\ kernel_size \in SeqKernelSizes
  /\ weights \in SeqWeights
  /\ pc = "ready"
  /\ ret = NoRet
  /\ log = <<>>

NewCall ==
  /\ pc = "done"
  /\ Len(log) < MaxCalls
  /\ file' \in SeqFiles
  /\ kernel_size' \in SeqKernelSizes
  /\ weights' \in SeqWeights
  /\ pc' = "ready"
  /\ UNCHANGED <<ret, log>>

NextCalls == Call \/ NewCall

SpecCalls == InitCalls /\ [][NextCalls]_vars

-----------------------------------------------------------------------------
(* Vocabulary of the properties.                                           *)

Done == pc = "done"
Returned == Done /\ ret.status = "returned"
Raised == Done /\ ret.status = "raised"

ValidImage == file.kind = "image" /\ file.h >= 1 /\ file.w >= 1
ValidKernel == kernel_size >= 1 /\ kernel_size % 2 = 1
FiveWeights == Len(weights) = 5
ValidWeights == FiveWeights /\ \A i \in 1 .. 5 : weights[i] >= 0

AllPix == Pix(file.h, file.w)
Flat == ValidImage /\ Cardinality({ file.px[p] : p \in AllPix }) = 1
GrayUniform == ValidImage /\ Cardinality({ GrayOf(file.px[p]) : p \in AllPix }) = 1
Zero(m) == \A p \in DOMAIN m : m[p] = 0

Checkerboard ==
  /\ ValidImage /\ file.h = 2 /\ file.w = 2
  /\ \A p \in AllPix :
       file.px[p] = IF (p[1] + p[2]) % 2 = 0 THEN Black ELSE White

Maps == <<ret.L_diff, ret.a_diff, ret.b_diff, ret.L_lap_abs, ret.entropy>>

\* weight values a caller may move a component to
WeightVals == {-MaxWeight, 0, 3, 5, MaxWeight, MaxWeight + 1}

-----------------------------------------------------------------------------
(* Properties.                                                             *)

\* C1: for a valid image, a kernel_size the code accepts and five
\* non-negative weights the call returns a field q with exactly the image's
\* height and width, and every entry of q is >= 0.
C1_ShapeAndSign ==
  (Done /\ ValidImage /\ ValidWeights) =>
     /\ kernel_size >= 1 => Returned
     /\ Returned =>
          /\ DOMAIN ret.q = AllPix
          /\ \A p \in AllPix : ret.q[p] >= 0

C1_Witness ==
  /\ Returned /\ ValidImage /\ ValidWeights
  /\ file.h = 2 /\ file.w = 2 /\ kernel_size = 3
  /\ \E p \in AllPix : ret.q[p] > 0

\* C2: a call whose kernel_size is not a positive odd integer raises
\* InvalidParameter before any computation step has run, and returns no
\* field.
C2_KernelRejected ==
  (Done /\ ValidImage /\ ~ValidKernel) =>
     /\ Raised
     /\ ret.error = "InvalidParameter"
     /\ \A i \in DOMAIN ret.steps : ret.steps[i] = "imread"

\* C3: a call whose weights are not exactly five non-negative entries raises
\* InvalidParameter, before the per-channel maps have been computed, and
\* returns no field.
C3_WeightsRejected ==
  (Done /\ ValidImage /\ ValidKernel /\ ~ValidWeights) =>
     /\ Raised
     /\ ret.error = "InvalidParameter"
     /\ \A i \in DOMAIN ret.steps : ret.steps[i] \notin {"diff", "Laplacian", "entropy"}

C5_ZeroWeightIsolation ==
  Returned =>
    \A i \in 1 .. 5 :
      (\A j \in 1 .. 5 : j # i => weights[j] = 0) =>
         \A p \in AllPix : ret.q[p] = weights[i] * Maps[i][p]

C5_Witness ==
  /\ Returned
  /\ weights = <<0, 0, 0, MaxWeight, 0>>
  /\ \E p \in AllPix : ret.q[p] > 0 /\ ret.q[p] = MaxWeight * ret.L_lap_abs[p]
  /\ \E p \in AllPix : ret.entropy[p] > 0 /\ ret.L_diff[p] > 0

C7_EntropyConstantField ==
  Returned =>
    /\ DOMAIN ret.entropy = AllPix
    /\ \A p, r \in AllPix : ret.entropy[p] = ret.entropy[r]
    /\ \A p \in AllPix : ret.entropy[p] >= 0
    /\ \A p \in AllPix : (ret.entropy[p] = 0) <=> GrayUniform
    /\ \A k \in KernelSizes :
         k >= 1 => compute_aesthetic_charge(file, k, weights).entropy = ret.entropy

\* a two-colour image whose grayscale is uniform: contrast without entropy
C7_Witness ==
  /\ Returned /\ GrayUniform /\ ~Flat
  /\ \A p \in AllPix : ret.entropy[p] = 0
  /\ \E p \in AllPix : ret.L_diff[p] > 0

\* C8: raising one weight and holding the other four can only raise the
\* field: with w' = w except w'[i] >= w[i], the field of w' is >= the field
\* of w at every pixel.  (The five maps do not depend on the weights, so the
\* field of w' is the weighted sum of the maps of this call.)
C8_Monotone ==
  Returned =>
    \A i \in 1 .. 5 : \A v \in WeightVals :
      v >= weights[i] =>
        LET w2 == [weights EXCEPT ![i] = v]
            q2 == WeightedSum(w2, Maps[1], Maps[2], Maps[3], Maps[4], Maps[5])
        IN  \A p \in AllPix : q2[p] >= ret.q[p]

C8_Witness ==
  /\ Returned /\ weights = DefaultWeights
  /\ \A i \in 1 .. 5 : \E p \in AllPix : Maps[i][p] > 0

\* C9: with kernel_size = 1 the local mean is the channel itself, so the
\* three differences are 0 everywhere and q is w4 * |Laplacian of L| +
\* w5 * entropy; on the 2x2 black/white checkerboard the Laplacian of L is
\* non-zero at every pixel.
C9_KernelOne ==
  (Returned /\ kernel_size = 1) =>
     /\ Zero(ret.L_diff) /\ Zero(ret.a_diff) /\ Zero(ret.b_diff)
     /\ \A p \in AllPix :
          ret.q[p] = weights[4] * ret.L_lap_abs[p] + weights[5] * ret.entropy[p]
     /\ Checkerboard => \A p \in AllPix : ret.L_lap_abs[p] > 0

C9_Witness ==
  /\ Returned /\ kernel_size = 1 /\ Checkerboard /\ weights = DefaultWeights
  /\ \A p \in AllPix : ret.L_lap_abs[p] = 400000

====
